---- MODULE Spec2Model ----
(***************************************************************************)
(* Model of the caba-clima weather voice service: the refresh/cache        *)
(* coordinator (refreshWithLock, the /weather/voice and /weather/update    *)
(* handlers, the hourly cron tick and the startup trigger) and the         *)
(* rendering pipeline that produces the cached payload.                    *)
(*                                                                         *)
(* Two variants of the program are modelled: src/app.js ("app") and        *)
(* src/unnamed/part_000 ("part").  The variable `variant` is chosen in     *)
(* Init and never changes.                                                 *)
(*                                                                         *)
(* Time is counted in whole minutes since the epoch (Date.now() / 60000).  *)
(* JavaScript runs one macrotask at a time and drains the microtask queue  *)
(* (the continuations of settled promises) before the next macrotask:      *)
(* `mq` is that queue, and every macrotask action is guarded by mq = <<>>. *)
(* A handler that has answered (pc = "done") returns before the next step  *)
(* of any handler, so its response is observable in exactly one state.     *)
(***************************************************************************)
EXTENDS Integers, Sequences, FiniteSets, TLC

VARIABLES
    variant,        \* "app" (src/app.js) or "part" (src/unnamed/part_000)
    now,            \* Date.now(), in minutes
    latestWeather,  \* the cache entry
    refreshPromise, \* Null, or <<id>> of the call whose promise is stored
    calls,          \* every upstream call made so far (the promises)
    mq,             \* microtask queue: handlers whose await has settled
    pc,             \* position of each handler
    awaiting,       \* the call each handler awaits (0: none)
    resp,           \* last HTTP response sent by each handler
    cronLast,       \* minute at which the cron job last fired
    hist,           \* history variables, read only by the properties
    arg,            \* arguments of a function applied on its own (Null: none)
    result          \* Null, or <<the value it returned>>

vars == <<variant, now, latestWeather, refreshPromise, calls, mq, pc,
          awaiting, resp, cronLast, hist, arg, result>>

----------------------------------------------------------------------------
(* Bounds of the model *)

MaxCalls == 3
MaxNow == 721
NumVoice == 2
MaxTimes == 2
MaxCodes == 3
MaxSegmentRecords == 2
MaxTextLen == 4

----------------------------------------------------------------------------
(* null / undefined: a nullable value is <<>> (null) or <<v>> *)

Null == <<>>

CACHE_MAX_MINUTES == 65

----------------------------------------------------------------------------
(* JavaScript values of the upstream arrays: a number, JSON null, undefined
   (an index past the end of an array) and NaN.  Temperatures are carried
   in tenths of a degree. *)

JsNum(v) == [t |-> "number", v |-> v]
JsNull == [t |-> "null", v |-> 0]
JsUndefined == [t |-> "undefined", v |-> 0]
NaN == [t |-> "NaN", v |-> 0]

\* Number(x): null converts to 0, undefined to NaN
Number(x) ==
    CASE x.t = "number" -> x
      [] x.t = "null" -> JsNum(0)
      [] OTHER -> NaN

isFinite(n) == n.t = "number"

\* arr[i] of a JavaScript array (1-based here): undefined past the end
At(arr, i) == IF i \in 1..Len(arr) THEN arr[i] ELSE JsUndefined

\* Math.round of a value given in tenths: floor(x + 0.5)
MathRound(tenths) == (tenths + 5) \div 10

----------------------------------------------------------------------------
(* Text.  A string is a sequence of tokens: a token of Whitespace is one
   whitespace character (a space, a tab, a line feed), every other token
   is a run of non-whitespace characters.  Its length in characters is the
   sum of the token lengths. *)

Whitespace == {" ", "\t", "\n"}

\* number of characters of the tokens i..j of s
RECURSIVE RangeLen(_, _, _)
RangeLen(s, i, j) ==
    IF i > j THEN 0
    ELSE IF i = j THEN Len(s[i])
    ELSE RangeLen(s, i, (i + j) \div 2) + RangeLen(s, ((i + j) \div 2) + 1, j)

TextLen(s) == RangeLen(s, 1, Len(s))

\* words separated by single spaces
RECURSIVE Words(_)
Words(ws) ==
    IF Len(ws) <= 1 THEN ws ELSE <<Head(ws), " ">> \o Words(Tail(ws))

\* `${s}c`: the character(s) c appended to the string s
Suffix(s, c) ==
    IF s = <<>> \/ s[Len(s)] \in Whitespace THEN Append(s, c)
    ELSE [s EXCEPT ![Len(s)] = @ \o c]

\* the concatenation of a sequence of sequences
RECURSIVE Flatten(_)
Flatten(seqs) ==
    IF seqs = <<>> THEN <<>> ELSE Head(seqs) \o Flatten(Tail(seqs))

\* bits.join(' ')
RECURSIVE JoinSpace(_)
JoinSpace(bits) ==
    IF bits = <<>> THEN <<>>
    ELSE IF Len(bits) = 1 THEN Head(bits)
    ELSE Head(bits) \o <<" ">> \o JoinSpace(Tail(bits))

\* .replace(/\s+/g, ' '): each run of whitespace becomes one space
CollapseSpaces(s) ==
    LET kept == SelectSeq([i \in 1..Len(s) |-> i],
                          LAMBDA i : ~(s[i] \in Whitespace /\ i > 1
                                       /\ s[i - 1] \in Whitespace))
    IN  [k \in 1..Len(kept) |-> IF s[kept[k]] \in Whitespace THEN " "
                                 ELSE s[kept[k]]]

\* .trim()
Trim(s) ==
    LET inked == {i \in 1..Len(s) : s[i] \notin Whitespace}
    IN  IF inked = {} THEN <<>>
        ELSE SubSeq(s, CHOOSE i \in inked : \A j \in inked : i <= j,
                       CHOOSE i \in inked : \A j \in inked : i >= j)

\* number of characters of the first k tokens
PrefixLen(s, k) == RangeLen(s, 1, k)

\* s.slice(0, n): of a token cut in the middle the first characters are
\* kept
Slice(s, n) ==
    LET fit == CHOOSE k \in 0..Len(s) :
                   /\ PrefixLen(s, k) <= n
                   /\ k < Len(s) => PrefixLen(s, k + 1) > n
        rest == n - PrefixLen(s, fit)
    IN  SubSeq(s, 1, fit)
        \o (IF fit < Len(s) /\ rest > 0
            THEN <<SubSeq(s[fit + 1], 1, rest)>>
            ELSE <<>>)

\* Mutant of safeText: the cut text is not trimmed again.
safeText_NoFinalTrim(input) ==
    LET s == Trim(CollapseSpaces(input))
    IN  IF TextLen(s) > 240 THEN Slice(s, 240) ELSE s

safeText(input) ==
    LET s == Trim(CollapseSpaces(input))
    IN  IF TextLen(s) > 240 THEN Trim(Slice(s, 240)) ELSE s

\* xmlbuilder document: root Response with one Say child per line
buildXmlFromSayLines(lines) ==
    LET texts == [i \in 1..Len(lines) |-> safeText(lines[i])]
    IN  [root |-> "Response", say |-> SelectSeq(texts, LAMBDA t : t # <<>>)]

\* part_000: a single Say element
buildXml(text) == [root |-> "Response", say |-> <<safeText(text)>>]

----------------------------------------------------------------------------
(* Local time of America/Argentina/Buenos_Aires (UTC-3, no DST) *)

nowBA(t) == t - 3 * 60

LocalDate(dt) == dt \div 1440
LocalHour(dt) == (dt % 1440) \div 60
LocalMinute(dt) == dt % 60

Pad2(n) == IF n < 10 THEN "0" \o ToString(n) ELSE ToString(n)

\* dt.toFormat('HH:mm')
FormatHHmm(dt) == Pad2(LocalHour(dt)) \o ":" \o Pad2(LocalMinute(dt))

\* dt.setLocale('es').toFormat('cccc').toLowerCase() of a calendar date
\* (day 0 of the epoch is a Thursday)
weekdayEs(date) ==
    <<"jueves", "viernes", "sábado", "domingo", "lunes", "martes",
      "miércoles">>[(date % 7) + 1]

----------------------------------------------------------------------------
(* Segmenter *)

weatherCodeToSpanish(code) ==
    LET c == Number(code)
    IN  IF c.t # "number" THEN <<>>
        ELSE CASE c.v = 0 -> Words(<<"cielo", "despejado">>)
               [] c.v = 1 -> Words(<<"mayormente", "despejado">>)
               [] c.v = 2 -> Words(<<"parcialmente", "nublado">>)
               [] c.v = 3 -> <<"nublado">>
               [] c.v \in {45, 48} -> <<"niebla">>
               [] c.v \in {51, 53, 55} -> <<"llovizna">>
               [] c.v \in {56, 57} -> Words(<<"llovizna", "helada">>)
               [] c.v \in {61, 63, 65} -> <<"lluvia">>
               [] c.v \in {66, 67} -> Words(<<"lluvia", "helada">>)
               [] c.v \in {71, 73, 75} -> <<"nieve">>
               [] c.v = 77 -> <<"granizo">>
               [] c.v \in {80, 81, 82} -> <<"chaparrones">>
               [] c.v \in {85, 86} -> Words(<<"chaparrones", "de", "nieve">>)
               [] c.v = 95 -> <<"tormenta">>
               [] c.v \in {96, 99} -> Words(<<"tormenta", "con", "granizo">>)
               [] OTHER -> <<>>

\* the finite numbers of arr, in order
FiniteNums(arr) ==
    LET nums == [i \in 1..Len(arr) |-> Number(arr[i])]
        fin == SelectSeq(nums, isFinite)
    IN  [i \in 1..Len(fin) |-> fin[i].v]

\* the keys of the Map `freq`, in insertion (first-seen) order
RECURSIVE FreqKeys(_)
FreqKeys(nums) ==
    IF nums = <<>> THEN <<>>
    ELSE LET init == FreqKeys(SubSeq(nums, 1, Len(nums) - 1))
             v == nums[Len(nums)]
         IN  IF \E i \in 1..Len(init) : init[i] = v THEN init
             ELSE Append(init, v)

FreqCount(nums, k) == Cardinality({i \in 1..Len(nums) : nums[i] = k})

\* the scan `if (c > bestCount)` over the entries up to index n
RECURSIVE BestUpTo(_, _, _)
BestUpTo(nums, keys, n) ==
    IF n = 0 THEN [best |-> Null, bestCount |-> -1]
    ELSE LET prev == BestUpTo(nums, keys, n - 1)
             c == FreqCount(nums, keys[n])
         IN  IF c > prev.bestCount
             THEN [best |-> <<keys[n]>>, bestCount |-> c]
             ELSE prev

pickMostFrequent(arr) ==
    LET nums == FiniteNums(arr)
        keys == FreqKeys(nums)
        r == BestUpTo(nums, keys, Len(keys))
    IN  IF r.best # Null THEN JsNum(r.best[1]) ELSE JsNull

SeqMin(nums) == CHOOSE m \in {nums[i] : i \in 1..Len(nums)} :
                    \A i \in 1..Len(nums) : m <= nums[i]
SeqMax(nums) == CHOOSE m \in {nums[i] : i \in 1..Len(nums)} :
                    \A i \in 1..Len(nums) : m >= nums[i]

RECURSIVE SeqSum(_)
SeqSum(nums) == IF nums = <<>> THEN 0 ELSE Head(nums) + SeqSum(Tail(nums))

\* null, or <<[min, max]>>; input in tenths of a degree
minMaxRounded(arr) ==
    LET nums == FiniteNums(arr)
    IN  IF nums = <<>> THEN Null
        ELSE <<[min |-> MathRound(SeqMin(nums)), max |-> MathRound(SeqMax(nums))]>>

\* part_000: null, or <<rounded mean>>; input in whole per cent
avgRounded(arr) ==
    LET nums == FiniteNums(arr)
    IN  IF nums = <<>> THEN Null
        ELSE <<(2 * SeqSum(nums) + Len(nums)) \div (2 * Len(nums))>>

dayParts ==
    << [key |-> "madrugada", from |-> 0, to |-> 6],
       [key |-> "mañana", from |-> 6, to |-> 12],
       [key |-> "tarde", from |-> 12, to |-> 18],
       [key |-> "noche", from |-> 18, to |-> 24] >>

currentPartKey(dt) ==
    LET h == LocalHour(dt)
    IN  IF h >= 0 /\ h < 6 THEN "madrugada"
        ELSE IF h >= 6 /\ h < 12 THEN "mañana"
        ELSE IF h >= 12 /\ h < 18 THEN "tarde"
        ELSE "noche"

\* Mutant of BucketIndices: `h <= p.to`.
BucketIndices_Inclusive(targetDate, hourlyTime, p) ==
    SelectSeq([i \in 1..Len(hourlyTime) |-> i],
              LAMBDA i : /\ hourlyTime[i].valid
                         /\ hourlyTime[i].date = targetDate
                         /\ hourlyTime[i].hour >= p.from
                         /\ hourlyTime[i].hour <= p.to)

\* the indices i of hourlyTime collected for part p of targetDate
BucketIndices(targetDate, hourlyTime, p) ==
    SelectSeq([i \in 1..Len(hourlyTime) |-> i],
              LAMBDA i : /\ hourlyTime[i].valid
                         /\ hourlyTime[i].date = targetDate
                         /\ hourlyTime[i].hour >= p.from
                         /\ hourlyTime[i].hour < p.to)

\* `codes` of part p: codes.push(hourlyCode[i]) for the collected indices
BucketCodes(targetDate, hourlyTime, hourlyCode, p) ==
    LET idx == BucketIndices(targetDate, hourlyTime, p)
    IN  [k \in 1..Len(idx) |-> At(hourlyCode, idx[k])]

\* one iteration of `for (const p of parts)`: <<>> on `continue`,
\* else <<segment>>
SegmentOfPart(p, targetDate, hourlyTime, hourlyCode, hourlyTemp, hourlyHum) ==
    LET idx == BucketIndices(targetDate, hourlyTime, p)
        codes == BucketCodes(targetDate, hourlyTime, hourlyCode, p)
        temps == [k \in 1..Len(idx) |-> At(hourlyTemp, idx[k])]
        hums == [k \in 1..Len(idx) |-> At(hourlyHum, idx[k])]
        code == pickMostFrequent(codes)
        desc == weatherCodeToSpanish(code)
        mm == minMaxRounded(temps)
        hAvg == IF variant = "part" THEN avgRounded(hums) ELSE Null
    IN  IF desc = <<>> /\ mm = Null /\ hAvg = Null THEN <<>>
        ELSE <<[key |-> p.key, desc |-> desc, mm |-> mm, hum |-> hAvg]>>

buildSegmentsForDay(targetDate, hourlyTime, hourlyCode, hourlyTemp, hourlyHum) ==
    Flatten([n \in 1..Len(dayParts) |->
                SegmentOfPart(dayParts[n], targetDate, hourlyTime, hourlyCode,
                              hourlyTemp, hourlyHum)])

----------------------------------------------------------------------------
(* Phrase builder *)

PartFrom(key) ==
    IF \E n \in 1..Len(dayParts) : dayParts[n].key = key
    THEN dayParts[CHOOSE n \in 1..Len(dayParts) : dayParts[n].key = key].from
    ELSE 0

dayHeaderForOffset(baseDay, offsetDays) ==
    LET wd == weekdayEs(baseDay + offsetDays)
    IN  IF offsetDays = 0 THEN <<"Hoy", " ", wd \o ".">>
        ELSE <<"El", " ", wd \o ".">>

segmentMomentLabel(segKey, isActual) ==
    LET needsLa == segKey \in {"madrugada", "tarde", "noche"}
        base == IF needsLa THEN <<"en", " ", "la", " ", segKey>> ELSE <<segKey>>
    IN  IF isActual THEN base \o <<" ", "actual">> ELSE base

\* `Entre ${min} y ${max} grados.`
EntreGrados(mm) ==
    <<"Entre", " ", ToString(mm.min), " ", "y", " ", ToString(mm.max), " ",
      "grados.">>

\* `Actualizado ${hhmm}.`
Actualizado(hhmm) == <<"Actualizado", " ", hhmm \o ".">>

\* part_000: dayLabel(i)
dayLabel(i) ==
    CASE i = 0 -> <<"Hoy">>
      [] i = 1 -> <<"Mañana">>
      [] i = 2 -> <<"Pasado", " ", "mañana">>
      [] OTHER -> <<>>

\* app.js: lines 211-220, the text of one retained segment
SegmentLine(seg, d, nowKey) ==
    LET isActual == d = 0 /\ seg.key = nowKey
        momentLabel == segmentMomentLabel(seg.key, isActual)
        bits == <<Suffix(momentLabel, ":")>>
                \o (IF seg.desc # <<>> THEN <<Suffix(safeText(seg.desc), ".")>> ELSE <<>>)
                \o (IF seg.mm # Null THEN <<EntreGrados(seg.mm[1])>> ELSE <<>>)
    IN  JoinSpace(bits)

\* app.js: lines 198-221, the lines pushed for day offset d
DayLines(d, data, t) ==
    LET baseDay == LocalDate(nowBA(t))
        nowKey == currentPartKey(nowBA(t))
        nowFrom == PartFrom(nowKey)
        segments == buildSegmentsForDay(baseDay + d, data.time, data.weather_code,
                                        data.temperature_2m, <<>>)
        filtered == IF d = 0
                    THEN SelectSeq(segments, LAMBDA sg : PartFrom(sg.key) >= nowFrom)
                    ELSE segments
    IN  IF filtered = <<>> THEN <<>>
        ELSE <<dayHeaderForOffset(baseDay, d)>>
             \o [k \in 1..Len(filtered) |-> SegmentLine(filtered[k], d, nowKey)]

\* part_000: formatDayLine(label, segments)
formatDayLine(label, segments) ==
    LET segText(sg) ==
            JoinSpace(<<Suffix(<<sg.key>>, ":")>>
                \o (IF sg.desc # <<>> THEN <<Suffix(safeText(sg.desc), ".")>> ELSE <<>>)
                \o (IF sg.mm # Null THEN <<EntreGrados(sg.mm[1])>> ELSE <<>>)
                \o (IF sg.hum # Null
                    THEN <<<<"Humedad", " ", ToString(sg.hum[1]), " ", "por", " ",
                             "ciento.">>>>
                    ELSE <<>>))
        segTexts == [k \in 1..Len(segments) |-> segText(segments[k])]
    IN  IF segTexts = <<>> THEN <<>>
        ELSE Suffix(label, ".") \o <<" ">> \o JoinSpace(segTexts)

\* part_000: lines 197-207, the line of day offset d (<<>> when none)
DayLine(d, data, t) ==
    LET baseDate == LocalDate(nowBA(t))
        label == dayLabel(d)
        segments == buildSegmentsForDay(baseDate + d, data.time, data.weather_code,
                                        data.temperature_2m, data.relative_humidity_2m)
        line == formatDayLine(label, segments)
    IN  IF label = <<>> \/ line = <<>> THEN <<>> ELSE <<line>>

\* Mutant of RenderedEntry: the payload is assigned into the existing
\* entry, whose other fields are left as they were.
RenderedEntry_XmlOnly(data, t) ==
    [latestWeather EXCEPT
        !.xml = IF variant = "app"
                THEN <<buildXmlFromSayLines(
                         <<Words(<<"Capital", "Federal.">>)>>
                         \o Flatten([d \in 1..3 |-> DayLines(d - 1, data, t)])
                         \o <<Actualizado(FormatHHmm(nowBA(t)))>>)>>
                ELSE <<buildXml(JoinSpace(
                         <<Words(<<"Capital", "Federal.">>)>>
                         \o Flatten([d \in 1..3 |-> DayLine(d - 1, data, t)])
                         \o <<Actualizado(FormatHHmm(nowBA(t)))>>))>>]

\* The value refreshFromOpenMeteo assigns to latestWeather once the
\* upstream has answered with `data`, at time t.
RenderedEntry(data, t) ==
    IF variant = "app"
    THEN LET sayLines == <<Words(<<"Capital", "Federal.">>)>>
                      \o Flatten([d \in 1..3 |-> DayLines(d - 1, data, t)])
                      \o <<Actualizado(FormatHHmm(nowBA(t)))>>
         IN  [xml |-> <<buildXmlFromSayLines(sayLines)>>, timestamp |-> <<t>>,
              isDegraded |-> FALSE]
    ELSE LET updatedAt == FormatHHmm(nowBA(t))
             dayLines == Flatten([d \in 1..3 |-> DayLine(d - 1, data, t)])
             parts == <<Words(<<"Capital", "Federal.">>)>>
                      \o (IF dayLines # <<>> THEN <<JoinSpace(dayLines)>> ELSE <<>>)
                      \o <<Actualizado(updatedAt)>>
         IN  [xml |-> <<buildXml(JoinSpace(parts))>>, timestamp |-> <<t>>]

----------------------------------------------------------------------------
(* Degraded fallback *)

\* Mutant of ensureDegradedXmlIfEmpty: the guard is inverted, an empty entry
\* is left empty.
ensureDegradedXmlIfEmpty_Inverted(lw, t) ==
    IF ~(lw.xml # Null /\ lw.isDegraded = FALSE) THEN lw
    ELSE [xml |-> <<buildXmlFromSayLines(
                      << Words(<<"Capital", "Federal.">>),
                         Words(<<"Clima", "no", "disponible", "por", "el", "momento.">>),
                         Actualizado(FormatHHmm(nowBA(t))) >>)>>,
          timestamp |-> <<t>>,
          isDegraded |-> TRUE]

\* app.js: the entry after ensureDegradedXmlIfEmpty() runs at time t
ensureDegradedXmlIfEmpty(lw, t) ==
    IF lw.xml # Null /\ lw.isDegraded = FALSE THEN lw
    ELSE [xml |-> <<buildXmlFromSayLines(
                      << Words(<<"Capital", "Federal.">>),
                         Words(<<"Clima", "no", "disponible", "por", "el", "momento.">>),
                         Actualizado(FormatHHmm(nowBA(t))) >>)>>,
          timestamp |-> <<t>>,
          isDegraded |-> TRUE]

\* part_000: the entry after ensureDegradedXml() runs at time t
ensureDegradedXml(lw, t) ==
    [xml |-> <<buildXml(
                 Words(<<"Clima", "para", "Capital", "Federal", "no", "disponible",
                         "por", "el", "momento.">>)
                 \o <<" ">> \o Actualizado(FormatHHmm(nowBA(t))))>>,
     timestamp |-> <<t>>]

\* the catch blocks call the variant's own function
EnsureDegraded(lw, t) ==
    IF variant = "app" THEN ensureDegradedXmlIfEmpty(lw, t)
    ELSE ensureDegradedXml(lw, t)

----------------------------------------------------------------------------
(* The environment: handlers, upstream answers, clock *)

Startup == <<"startup", 1>>
Cron == <<"cron", 1>>
VoiceProcs == {<<"voice", i>> : i \in 1..NumVoice}
UpdateProcs == {<<"update", 1>>}
Procs == {Startup, Cron} \cup VoiceProcs \cup UpdateProcs

\* between events the clock advances to the next of these minutes of the
\* hour; the process starts at one of StartTimes
ClockMarks == {0}
StartTimes == {654}

\* hourly series the upstream may answer with, dated from local day `today`
Hour(date, h) == [valid |-> TRUE, date |-> date, hour |-> h]
InvalidTime == [valid |-> FALSE, date |-> 0, hour |-> 0]

NoHourly ==
    [time |-> <<>>, weather_code |-> <<>>, temperature_2m |-> <<>>,
     relative_humidity_2m |-> <<>>]

SparseHourly(today) ==
    [time |-> <<Hour(today, 8), Hour(today, 14), Hour(today, 15), InvalidTime,
                Hour(today + 1, 20), Hour(today + 2, 3)>>,
     weather_code |-> <<JsNum(61), JsNum(1), JsNum(2), JsNum(3), JsNum(100), JsNull>>,
     temperature_2m |-> <<JsNum(184), JsNum(215), JsNum(225), JsNum(0), JsNum(-4)>>,
     relative_humidity_2m |-> <<JsNum(60), JsNum(45), JsNum(50), JsNum(1), JsNull>>]

\* three days, two records in each day part (hours 2, 4, 8, 10, ...)
FullHourly(today) ==
    LET hourOf(i) == 6 * (((i - 1) % 8) \div 2) + 2 + 2 * ((i - 1) % 2)
    IN  [time |-> [i \in 1..24 |-> Hour(today + ((i - 1) \div 8), hourOf(i))],
         weather_code |-> [i \in 1..24 |-> JsNum(IF i % 5 = 0 THEN 61 ELSE 3)],
         temperature_2m |-> [i \in 1..24 |-> JsNum(150 + 7 * (hourOf(i) - 12))],
         relative_humidity_2m |-> [i \in 1..24 |-> JsNum(40 + (i % 7))]]

UpstreamData(today) == {NoHourly, SparseHourly(today), FullHourly(today)}

\* errors axios rejects with: err.message, err.response (absent on a
\* timeout or a transport failure)
NoErr == [message |-> "", response |-> Null]
UpstreamErrors ==
    { [message |-> "timeout of 10000ms exceeded", response |-> Null],
      [message |-> "Request failed with status code 500",
       response |-> <<[status |-> 500, data |-> "Internal Server Error"]>>] }

NoResp == [status |-> 0, type |-> "none", body |-> Null]

Pending == {a \in 1..Len(calls) : calls[a].state = "pending"}

\* a macrotask runs only when the microtask queue is drained
Macro == mq = <<>> /\ \A p \in Procs : pc[p] # "done"

Listening == pc[Startup] # "init"

\* '0 * * * *' in the service's timezone, once per matching minute
CronDue == LocalMinute(nowBA(now)) = 0 /\ cronLast # now

\* hist.note[p]: what handler p found when its request arrived and what it
\* observed; hist.outcomes[a]: the outcomes observed, in order, by the
\* handlers that started call a or arrived while it was in flight;
\* hist.writer: who wrote the current entry; hist.okAt: when the last
\* successful refresh completed; hist.replaced: the writer of the entry it
\* replaced.
NoNote == [seen |-> {}, started |-> FALSE, invoked |-> 0, cohort |-> 0,
           hadXml |-> FALSE, timestamp |-> Null, at |-> 0,
           observed |-> "none", ensured |-> FALSE]

\* the module-level state of a process that has just been loaded
Boot ==
    /\ variant \in {"app", "part"}
    /\ latestWeather = IF variant = "app"
                       THEN [xml |-> Null, timestamp |-> Null, isDegraded |-> FALSE]
                       ELSE [xml |-> Null, timestamp |-> Null]
    /\ refreshPromise = Null
    /\ calls = <<>>
    /\ mq = <<>>
    /\ pc = [p \in Procs |-> IF p = Startup THEN "init" ELSE "idle"]
    /\ awaiting = [p \in Procs |-> 0]
    /\ resp = [p \in Procs |-> NoResp]
    /\ hist = [note |-> [p \in Procs |-> NoNote],
               outcomes |-> <<>>,
               everOk |-> FALSE,
               writer |-> "none",
               okAt |-> 0,
               replaced |-> "none"]

Init ==
    /\ Boot
    /\ now \in StartTimes
    /\ cronLast = now
    /\ arg = Null
    /\ result = Null

----------------------------------------------------------------------------
(* refreshWithLock, called by handler p.  The async IIFE runs synchronously
   up to `await axios.get(...)`, so starting the upstream call is part of
   the calling step.  A caller that finds a promise stored awaits it: it is
   appended to the waiters of a pending call, and is queued as a microtask
   at once when that promise has already settled. *)

\* Mutant of refreshWithLock: no `if (refreshPromise) return refreshPromise`.
refreshWithLock_NoGuard(p) ==
    /\ Len(calls) < MaxCalls
    /\ calls' = Append(calls, [state |-> "pending", err |-> NoErr,
                               waiters |-> <<p>>, ticked |-> FALSE])
    /\ refreshPromise' = <<Len(calls) + 1>>
    /\ awaiting' = [awaiting EXCEPT ![p] = Len(calls) + 1]
    /\ mq' = mq

\* Mutant of refreshWithLock: `if (refreshPromise) return;`, a caller that
\* finds a refresh in flight does not wait for it.
refreshWithLock_NoWait(p) ==
    IF refreshPromise # Null
    THEN /\ awaiting' = [awaiting EXCEPT ![p] = refreshPromise[1]]
         /\ calls' = calls
         /\ mq' = Append(mq, p)
         /\ refreshPromise' = refreshPromise
    ELSE /\ Len(calls) < MaxCalls
         /\ calls' = Append(calls, [state |-> "pending", err |-> NoErr,
                                    waiters |-> <<p>>, ticked |-> FALSE])
         /\ refreshPromise' = <<Len(calls) + 1>>
         /\ awaiting' = [awaiting EXCEPT ![p] = Len(calls) + 1]
         /\ mq' = mq

refreshWithLock(p) ==
    IF refreshPromise # Null
    THEN LET a == refreshPromise[1]
         IN  /\ awaiting' = [awaiting EXCEPT ![p] = a]
             /\ IF calls[a].state = "pending"
                THEN /\ calls' = [calls EXCEPT ![a].waiters = Append(@, p)]
                     /\ mq' = mq
                ELSE /\ calls' = calls
                     /\ mq' = Append(mq, p)
             /\ refreshPromise' = refreshPromise
    ELSE /\ Len(calls) < MaxCalls
         /\ calls' = Append(calls, [state |-> "pending", err |-> NoErr,
                                    waiters |-> <<p>>, ticked |-> FALSE])
         /\ refreshPromise' = <<Len(calls) + 1>>
         /\ awaiting' = [awaiting EXCEPT ![p] = Len(calls) + 1]
         /\ mq' = mq

\* history of a request of p: the calls in flight when it arrived, the
\* entry it found, whether it invoked refreshWithLock and started a call
NoteRequest(p, invoked) ==
    [hist EXCEPT
        !.note[p] = [NoNote EXCEPT
                        !.seen = Pending,
                        !.started = Len(calls') > Len(calls),
                        !.invoked = invoked,
                        !.cohort = IF invoked = 0 THEN 0
                                   ELSE IF Pending # {}
                                   THEN CHOOSE a \in Pending : \A b \in Pending : a <= b
                                   ELSE Len(calls) + 1,
                        !.hadXml = latestWeather.xml # Null,
                        !.timestamp = latestWeather.timestamp,
                        !.at = now,
                        !.ensured = latestWeather.xml # Null],
        !.outcomes = IF Len(calls') > Len(calls) THEN Append(@, <<>>) ELSE @]

----------------------------------------------------------------------------
(* Triggers *)

\* app.listen(PORT, async () => { try { await refreshWithLock() } ...
StartupTrigger ==
    /\ Macro
    /\ pc[Startup] = "init"
    /\ refreshWithLock(Startup)
    /\ pc' = [pc EXCEPT ![Startup] = "await"]
    /\ hist' = NoteRequest(Startup, 1)
    /\ UNCHANGED <<arg, result, variant, now, latestWeather, resp, cronLast>>

\* cron.schedule('0 * * * *', async () => { try { await refreshWithLock() } ...
CronTick ==
    /\ Macro
    /\ Listening
    /\ pc[Cron] = "idle"
    /\ CronDue
    /\ refreshWithLock(Cron)
    /\ pc' = [pc EXCEPT ![Cron] = "await"]
    /\ cronLast' = now
    /\ hist' = NoteRequest(Cron, 1)
    /\ UNCHANGED <<arg, result, variant, now, latestWeather, resp>>

\* app.post('/weather/update'): up to `await refreshWithLock()`
UpdateRequest(p) ==
    /\ Macro
    /\ Listening
    /\ pc[p] = "idle"
    /\ refreshWithLock(p)
    /\ pc' = [pc EXCEPT ![p] = "await"]
    /\ hist' = NoteRequest(p, 1)
    /\ UNCHANGED <<arg, result, variant, now, latestWeather, resp, cronLast>>

\* Mutant of shouldRefresh: `ageMin >= CACHE_MAX_MINUTES`.
shouldRefresh_AtLeast(lw, t) ==
    LET ageMin == IF lw.timestamp # Null /\ lw.timestamp[1] # 0
                  THEN <<t - lw.timestamp[1]>>
                  ELSE Null
    IN  lw.xml = Null \/ ageMin = Null \/ ageMin[1] >= CACHE_MAX_MINUTES

\* Mutant of shouldRefresh: an entry flagged isDegraded is never fresh.
shouldRefresh_RetryDegraded(lw, t) ==
    LET ageMin == IF lw.timestamp # Null /\ lw.timestamp[1] # 0
                  THEN <<t - lw.timestamp[1]>>
                  ELSE Null
    IN  \/ lw.xml = Null \/ ageMin = Null \/ ageMin[1] > CACHE_MAX_MINUTES
        \/ ("isDegraded" \in DOMAIN lw /\ lw.isDegraded)

\* the test of GET /weather/voice on the entry lw at time t
shouldRefresh(lw, t) ==
    LET ageMin == IF lw.timestamp # Null /\ lw.timestamp[1] # 0
                  THEN <<t - lw.timestamp[1]>>
                  ELSE Null
    IN  lw.xml = Null \/ ageMin = Null \/ ageMin[1] > CACHE_MAX_MINUTES

\* res.type('application/xml').send(latestWeather.xml)
VoiceResponse(lw) == [status |-> 200, type |-> "application/xml", body |-> lw.xml]

\* app.get('/weather/voice'): the request arrives; it is answered at once
\* from the cache, or suspends at `await refreshWithLock()`
VoiceRequest(p) ==
    /\ Macro
    /\ Listening
    /\ pc[p] = "idle"
    /\ IF shouldRefresh(latestWeather, now)
       THEN /\ refreshWithLock(p)
            /\ pc' = [pc EXCEPT ![p] = "await"]
            /\ resp' = resp
            /\ hist' = NoteRequest(p, 1)
       ELSE /\ UNCHANGED <<refreshPromise, calls, mq, awaiting>>
            /\ pc' = [pc EXCEPT ![p] = "done"]
            /\ resp' = [resp EXCEPT ![p] = VoiceResponse(latestWeather)]
            /\ hist' = NoteRequest(p, 0)
    /\ UNCHANGED <<arg, result, variant, now, latestWeather, cronLast>>

----------------------------------------------------------------------------
(* The upstream call of `a` returns.  refreshFromOpenMeteo resumes, and the
   `finally` of the IIFE clears refreshPromise before the promise settles;
   the waiters' continuations are then queued in the order they awaited. *)

\* Mutant of InnerFinally: refreshPromise is cleared on success only (no
\* `finally`).
InnerFinally_NoFinally(a, outcome, err) ==
    /\ refreshPromise' = IF outcome = "ok" THEN Null ELSE refreshPromise
    /\ calls' = [calls EXCEPT ![a].state = outcome, ![a].err = err,
                              ![a].ticked = FALSE]
    /\ mq' = mq \o calls[a].waiters

\* Mutant of InnerFinally: a rejection is swallowed inside the IIFE, whose
\* promise then never settles for those who await it.
InnerFinally_NeverRejects(a, outcome, err) ==
    /\ refreshPromise' = Null
    /\ calls' = [calls EXCEPT ![a].state = outcome, ![a].err = err,
                              ![a].ticked = FALSE]
    /\ mq' = IF outcome = "ok" THEN mq \o calls[a].waiters ELSE mq

InnerFinally(a, outcome, err) ==
    /\ refreshPromise' = Null
    /\ calls' = [calls EXCEPT ![a].state = outcome, ![a].err = err,
                              ![a].ticked = FALSE]
    /\ mq' = mq \o calls[a].waiters

UpstreamResponds(a, data) ==
    /\ Macro
    /\ a \in Pending
    /\ latestWeather' = RenderedEntry(data, now)
    /\ InnerFinally(a, "ok", NoErr)
    /\ hist' = [hist EXCEPT !.everOk = TRUE, !.writer = "refresh",
                            !.okAt = now, !.replaced = hist.writer]
    /\ UNCHANGED <<arg, result, variant, now, pc, awaiting, resp, cronLast>>

UpstreamFails(a, err) ==
    /\ Macro
    /\ a \in Pending
    /\ InnerFinally(a, "fail", err)
    /\ UNCHANGED <<arg, result, variant, now, latestWeather, pc, awaiting, resp, cronLast, hist>>

----------------------------------------------------------------------------
(* Continuations after `await refreshWithLock()`: the head of the
   microtask queue runs its try/catch to the end of the handler. *)

Runnable(p) ==
    /\ mq # <<>> /\ Head(mq) = p
    /\ \A q \in Procs : pc[q] # "done"

Failed(p) == calls[awaiting[p]].state = "fail"

\* does the catch block's call write the entry?
CatchWrites ==
    variant = "part" \/ ~(latestWeather.xml # Null /\ latestWeather.isDegraded = FALSE)

\* Mutant of Catch: the catch block is empty.
Catch_Empty(p) == latestWeather' = latestWeather

\* `catch (_) { ensureDegraded...() }`, or nothing on success
Catch(p) ==
    IF Failed(p)
    THEN latestWeather' = EnsureDegraded(latestWeather, now)
    ELSE latestWeather' = latestWeather

NoteResume(p) ==
    [hist EXCEPT
        !.note[p].observed = calls[awaiting[p]].state,
        !.note[p].ensured = latestWeather'.xml # Null,
        !.outcomes[hist.note[p].cohort] =
            Append(@, <<calls[awaiting[p]].state, calls[awaiting[p]].err.message>>),
        !.writer = IF Failed(p) /\ CatchWrites THEN "degraded" ELSE @]

ResumeVoice(p) ==
    /\ Runnable(p)
    /\ p \in VoiceProcs
    /\ mq' = Tail(mq)
    /\ Catch(p)
    /\ resp' = [resp EXCEPT ![p] = VoiceResponse(latestWeather')]
    /\ pc' = [pc EXCEPT ![p] = "done"]
    /\ hist' = NoteResume(p)
    /\ UNCHANGED <<arg, result, variant, now, refreshPromise, calls, awaiting, cronLast>>

\* Mutant of UpdateResponse: the catch block answers like the try block.
UpdateResponse_AlwaysOk(p) ==
    [status |-> 200, type |-> "application/json",
     body |-> [ok |-> TRUE, message |-> "Weather refreshed."]]

\* res.json({ ok: true, ... }) / res.status(502).json({ ok: false, ... })
UpdateResponse(p) ==
    IF Failed(p)
    THEN [status |-> 502, type |-> "application/json",
          body |-> [ok |-> FALSE, error |-> calls[awaiting[p]].err.message]]
    ELSE [status |-> 200, type |-> "application/json",
          body |-> [ok |-> TRUE, message |-> "Weather refreshed."]]

ResumeUpdate(p) ==
    /\ Runnable(p)
    /\ p \in UpdateProcs
    /\ mq' = Tail(mq)
    /\ Catch(p)
    /\ resp' = [resp EXCEPT ![p] = UpdateResponse(p)]
    /\ pc' = [pc EXCEPT ![p] = "done"]
    /\ hist' = NoteResume(p)
    /\ UNCHANGED <<arg, result, variant, now, refreshPromise, calls, awaiting, cronLast>>

\* the cron job and the listen callback have no caller to answer
ResumeTrigger(p) ==
    /\ Runnable(p)
    /\ p \in {Startup, Cron}
    /\ mq' = Tail(mq)
    /\ Catch(p)
    /\ pc' = [pc EXCEPT ![p] = "done"]
    /\ hist' = NoteResume(p)
    /\ UNCHANGED <<arg, result, variant, now, refreshPromise, calls, awaiting, resp, cronLast>>

\* The handler returns: its request, response and promise reference are
\* dropped; a settled promise nobody awaits any more is garbage ("gone").
Return(p) ==
    /\ pc[p] = "done"
    /\ pc' = [pc EXCEPT ![p] = IF p = Startup THEN "ended" ELSE "idle"]
    /\ resp' = [resp EXCEPT ![p] = NoResp]
    /\ awaiting' = [awaiting EXCEPT ![p] = 0]
    /\ calls' = [a \in 1..Len(calls) |->
                    IF calls[a].state # "pending"
                       /\ \A q \in Procs \ {p} : awaiting[q] # a
                    THEN [state |-> "gone", err |-> NoErr, waiters |-> <<>>,
                          ticked |-> FALSE]
                    ELSE calls[a]]
    /\ hist' = [hist EXCEPT
                    !.note[p] = NoNote,
                    !.outcomes = [a \in 1..Len(hist.outcomes) |->
                                    IF \A q \in Procs \ {p} : hist.note[q].cohort # a
                                    THEN <<>> ELSE hist.outcomes[a]]]
    /\ UNCHANGED <<arg, result, variant, now, latestWeather, refreshPromise, mq, cronLast>>

----------------------------------------------------------------------------
(* The clock.  Between events it advances to the next minute mark, never
   past a minute at which the cron job is due and has not fired.  An
   upstream call lasts at most the 10 s timeout, so while one is
   outstanding the clock can only cross into the next minute, once. *)

NextMark == CHOOSE t \in (now + 1)..(now + 60) :
                /\ (t % 60) \in ClockMarks
                /\ \A u \in (now + 1)..(t - 1) : (u % 60) \notin ClockMarks

CronNotSkipped(t) ==
    /\ ~CronDue
    /\ \A m \in (now + 1)..(t - 1) : LocalMinute(nowBA(m)) # 0

Tick ==
    /\ Macro
    /\ Listening
    /\ Pending = {}
    /\ NextMark <= MaxNow
    /\ CronNotSkipped(NextMark)
    /\ now' = NextMark
    /\ UNCHANGED <<arg, result, variant, latestWeather, refreshPromise, calls, mq, pc,
                   awaiting, resp, cronLast, hist>>

FetchTick(a) ==
    /\ Macro
    /\ a \in Pending
    /\ ~calls[a].ticked
    /\ now + 1 <= MaxNow
    /\ CronNotSkipped(now + 1)
    /\ now' = now + 1
    /\ calls' = [b \in 1..Len(calls) |->
                    IF b \in Pending THEN [calls[b] EXCEPT !.ticked = TRUE]
                    ELSE calls[b]]
    /\ UNCHANGED <<arg, result, variant, latestWeather, refreshPromise, mq, pc, awaiting,
                   resp, cronLast, hist>>

Next ==
    \/ StartupTrigger
    \/ CronTick
    \/ \E p \in UpdateProcs : UpdateRequest(p)
    \/ \E p \in VoiceProcs : VoiceRequest(p)
    \/ \E a \in 1..Len(calls) :
          \E data \in UpstreamData(LocalDate(nowBA(now))) : UpstreamResponds(a, data)
    \/ \E a \in 1..Len(calls) : \E err \in UpstreamErrors : UpstreamFails(a, err)
    \/ \E p \in VoiceProcs : ResumeVoice(p)
    \/ \E p \in UpdateProcs : ResumeUpdate(p)
    \/ \E p \in {Startup, Cron} : ResumeTrigger(p)
    \/ \E p \in Procs : Return(p)
    \/ Tick
    \/ \E a \in 1..Len(calls) : FetchTick(a)

Spec == Init /\ [][Next]_vars

\* Scheduling.  axios settles every call within its 10 s timeout, however
\* busy the event loop is (strong fairness: the callback can only run
\* between other callbacks); a queued continuation runs as soon as the
\* running one returns, and a handler that has answered returns.
Settle ==
    \E a \in 1..Len(calls) :
        \/ \E err \in UpstreamErrors : UpstreamFails(a, err)
        \/ \E data \in UpstreamData(LocalDate(nowBA(now))) : UpstreamResponds(a, data)

\* The event loop takes the continuation at the head of the microtask
\* queue: the steps of ResumeVoice, ResumeUpdate and ResumeTrigger, and no
\* other step, remove the head of mq.
Resume == (mq # <<>> /\ \A q \in Procs : pc[q] # "done") /\ mq' = Tail(mq)

Fairness ==
    /\ SF_vars(Settle)
    /\ WF_mq(Resume)
    /\ WF_vars(\E p \in Procs : Return(p))

LiveSpec == Spec /\ Fairness

----------------------------------------------------------------------------
(* A function applied on its own.  The process has just been loaded (Boot);
   `arg` holds <<the arguments>>, `result` becomes <<the value returned>>. *)

program == <<variant, now, latestWeather, refreshPromise, calls, mq, pc,
             awaiting, resp, cronLast, hist>>

\* refreshFromOpenMeteo's rendering, at each boundary of the day parts

\* local minutes of the day at which the upstream answers
RenderMinutes == {0, 359, 360, 719, 720, 1079, 1080, 1439}
RenderTimes == {3 * 60 + 1440 + m : m \in RenderMinutes}

\* a series with one record, in part n of day today + d
OnePartHourly(today, d, n) ==
    [time |-> <<Hour(today + d, dayParts[n].from + 1)>>,
     weather_code |-> <<JsNum(2)>>,
     temperature_2m |-> <<JsNum(201)>>,
     relative_humidity_2m |-> <<JsNum(55)>>]

RenderData(today) ==
    UpstreamData(today)
    \cup {OnePartHourly(today, d, n) : d \in 0..2, n \in 1..Len(dayParts)}

RenderInit ==
    /\ Boot
    /\ now \in RenderTimes
    /\ cronLast = now
    /\ arg \in {<<[f |-> "render", data |-> data]>> :
                    data \in RenderData(LocalDate(nowBA(now)))}
    /\ result = Null

ApplyRender ==
    /\ result = Null
    /\ arg[1].f = "render"
    /\ result' = <<RenderedEntry(arg[1].data, now)>>
    /\ UNCHANGED <<program, arg>>

RenderSpec == RenderInit /\ [][ApplyRender]_vars

\* the sequences over S of length at most n
SeqsUpTo(S, n) == UNION {[1..k -> S] : k \in 0..n}

\* buildSegmentsForDay's collection of the records of each day part

\* hourly.time elements: every hour of `today`, the neighbouring days, and
\* one that does not parse
PartitionTimes(today) ==
    {Hour(today, h) : h \in 0..23}
    \cup {Hour(today - 1, 23), Hour(today + 1, 0), InvalidTime}

PartitionInit ==
    /\ Boot
    /\ now \in StartTimes
    /\ cronLast = now
    /\ \E targetDate \in {LocalDate(nowBA(now)), LocalDate(nowBA(now)) + 1} :
          arg \in {<<[f |-> "buckets", targetDate |-> targetDate, time |-> time]>> :
                      time \in SeqsUpTo(PartitionTimes(LocalDate(nowBA(now))), MaxTimes)}
    /\ result = Null

ApplyBuckets ==
    /\ result = Null
    /\ arg[1].f = "buckets"
    /\ result' = <<[n \in 1..Len(dayParts) |->
                       BucketIndices(arg[1].targetDate, arg[1].time, dayParts[n])]>>
    /\ UNCHANGED <<program, arg>>

PartitionSpec == PartitionInit /\ [][ApplyBuckets]_vars

\* buildSegmentsForDay's code of each day part: pickMostFrequent(codes)

\* records (time, weather_code) of the small hours and of the morning
CodeRecords(today) ==
    {[time |-> Hour(today, h), code |-> c] :
        h \in {1, 2, 3}, c \in {JsNum(1), JsNum(2), JsNum(61), JsNum(63), JsNull}}

CodeInit ==
    /\ Boot
    /\ now \in StartTimes
    /\ cronLast = now
    /\ arg \in {<<[f |-> "codes", targetDate |-> LocalDate(nowBA(now)),
                    time |-> [i \in 1..Len(recs) |-> recs[i].time],
                    code |-> [i \in 1..Len(recs) |-> recs[i].code]]>> :
                    recs \in SeqsUpTo(CodeRecords(LocalDate(nowBA(now))), MaxCodes)}
    /\ result = Null

ApplyPickMostFrequent ==
    /\ result = Null
    /\ arg[1].f = "codes"
    /\ result' = <<[n \in 1..Len(dayParts) |->
                       pickMostFrequent(BucketCodes(arg[1].targetDate, arg[1].time,
                                                    arg[1].code, dayParts[n]))]>>
    /\ UNCHANGED <<program, arg>>

CodeSpec == CodeInit /\ [][ApplyPickMostFrequent]_vars

\* buildSegmentsForDay as a whole.  The arrays of codes, temperatures and
\* humidities may be shorter than hourly.time (the missing elements read
\* as undefined) and may hold nulls.

SegmentArgs(today) ==
    {<<[f |-> "segments", targetDate |-> today, time |-> time, code |-> code,
        temp |-> temp, hum |-> hum]>> :
        time \in SeqsUpTo({Hour(today, 1), Hour(today, 13)}, MaxSegmentRecords),
        code \in SeqsUpTo({JsNum(3), JsNum(100), JsNull}, MaxSegmentRecords),
        temp \in SeqsUpTo({JsNum(184), JsNull}, MaxSegmentRecords),
        hum \in SeqsUpTo({JsNum(60)}, MaxSegmentRecords)}

SegmentInit ==
    /\ Boot
    /\ now \in StartTimes
    /\ cronLast = now
    /\ arg \in {a \in SegmentArgs(LocalDate(nowBA(now))) :
                    /\ Len(a[1].code) <= Len(a[1].time)
                    /\ Len(a[1].temp) <= Len(a[1].time)
                    /\ Len(a[1].hum) <= Len(a[1].time)}
    /\ result = Null

ApplyBuildSegments ==
    /\ result = Null
    /\ arg[1].f = "segments"
    /\ result' = <<buildSegmentsForDay(arg[1].targetDate, arg[1].time, arg[1].code,
                                       arg[1].temp, arg[1].hum)>>
    /\ UNCHANGED <<program, arg>>

SegmentSpec == SegmentInit /\ [][ApplyBuildSegments]_vars

\* safeText, and the builders that put texts into Say elements

\* words of 120 and of 239 characters
Word120 == "abcdefghijabcdefghijabcdefghijabcdefghijabcdefghijabcdefghijabcdefghijabcdefghijabcdefghijabcdefghijabcdefghijabcdefghij"
Word239 == "abcdefghijabcdefghijabcdefghijabcdefghijabcdefghijabcdefghijabcdefghijabcdefghijabcdefghijabcdefghijabcdefghijabcdefghijabcdefghijabcdefghijabcdefghijabcdefghijabcdefghijabcdefghijabcdefghijabcdefghijabcdefghijabcdefghijabcdefghijabcdefghi"

Texts == SeqsUpTo({" ", "\t", "ab", Word120, Word239}, MaxTextLen)

SanitizeInit ==
    /\ Boot
    /\ now \in StartTimes
    /\ cronLast = now
    /\ arg \in {<<[f |-> "text", text |-> text]>> : text \in Texts}
            \cup {<<[f |-> "say", text |-> text]>> : text \in Texts}
            \cup {<<[f |-> "render", data |-> data]>> :
                      data \in RenderData(LocalDate(nowBA(now)))}
            \cup {<<[f |-> "degraded"]>>}
    /\ result = Null

ApplySafeText ==
    /\ result = Null
    /\ arg[1].f = "text"
    /\ result' = <<safeText(arg[1].text)>>
    /\ UNCHANGED <<program, arg>>

\* a document with the one text: buildXmlFromSayLines([text]) in app.js,
\* buildXml(text) in part_000
ApplyBuildXml ==
    /\ result = Null
    /\ arg[1].f = "say"
    /\ result' = <<[xml |-> <<IF variant = "app"
                               THEN buildXmlFromSayLines(<<arg[1].text>>)
                               ELSE buildXml(arg[1].text)>>]>>
    /\ UNCHANGED <<program, arg>>

\* the catch blocks' fallback, on the entry as it stands
ApplyEnsureDegraded ==
    /\ result = Null
    /\ arg[1].f = "degraded"
    /\ result' = <<EnsureDegraded(latestWeather, now)>>
    /\ UNCHANGED <<program, arg>>

SanitizeNext ==
    \/ ApplySafeText
    \/ ApplyBuildXml
    \/ ApplyRender
    \/ ApplyEnsureDegraded

SanitizeSpec == SanitizeInit /\ [][SanitizeNext]_vars

----------------------------------------------------------------------------
(* Properties *)

Note(p) == hist.note[p]

\* the text contains the tokens of pat, consecutively
Contains(text, pat) ==
    \E i \in 0..(Len(text) - Len(pat)) : SubSeq(text, i + 1, i + Len(pat)) = pat

\* a payload one of its Say elements tells the weather is unavailable
IsDegradedPayload(doc) ==
    \E k \in 1..Len(doc.say) :
        Contains(doc.say[k], Words(<<"no", "disponible", "por", "el", "momento.">>))

\* the step in which the handler at the head of the microtask queue
\* handles the failure of the refresh it awaited
FailureHandled == mq # <<>> /\ Failed(Head(mq)) /\ mq' = Tail(mq)

\* C1 (single-flight): in every reachable state at most one upstream call
\* is outstanding, and a handler whose call to refreshWithLock found a
\* refresh in flight did not start an upstream call.
SingleFlight ==
    /\ Cardinality(Pending) <= 1
    /\ \A p \in Procs : Note(p).seen # {} => ~Note(p).started

\* three handlers wait on the one outstanding call
SingleFlightWitness ==
    \E a \in Pending : Len(calls[a].waiters) >= 3

\* C2 (shared outcome): the handlers that arrived while a call was in
\* flight await that very call, and they and the handler that started it
\* all observe one and the same outcome (success, or the same failure),
\* which is the outcome of that call.
SharedOutcome ==
    /\ \A a \in 1..Len(hist.outcomes) :
          \A i, j \in 1..Len(hist.outcomes[a]) :
              hist.outcomes[a][i] = hist.outcomes[a][j]
    /\ \A p \in Procs :
          Note(p).invoked = 1 /\ Note(p).seen # {} =>
              /\ awaiting[p] \in Note(p).seen
              /\ Note(p).cohort = awaiting[p]
    /\ \A p \in Procs :
          Note(p).observed # "none" =>
              /\ Note(p).observed \in {"ok", "fail"}
              /\ Note(p).observed = calls[Note(p).cohort].state

\* the starter and two joiners have all observed the same failure
SharedOutcomeWitness ==
    \E a \in 1..Len(hist.outcomes) :
        /\ Len(hist.outcomes[a]) >= 3
        /\ hist.outcomes[a][1][1] = "fail"

\* C3 (the read path never fails): every response of GET /weather/voice
\* has status 200 and a non-null payload.
ReadNeverFails ==
    \A p \in VoiceProcs :
        pc[p] = "done" => resp[p].status = 200 /\ resp[p].body # Null

\* a read that arrived before any attempt had completed, and whose
\* refresh failed, is answered
ReadNeverFailsWitness ==
    \E p \in VoiceProcs :
        /\ pc[p] = "done"
        /\ ~Note(p).hadXml
        /\ Note(p).observed = "fail"
        /\ resp[p].body # Null

\* C4 (last-known-good is preserved): a step that handles the failure of a
\* refresh while the cache holds an entry written by a successful refresh
\* leaves that entry unchanged.
LastKnownGoodPreserved ==
    [][(hist.writer = "refresh" /\ FailureHandled) => latestWeather' = latestWeather]_vars

\* C5 (degraded iff nothing good): a degraded entry is stored only by the
\* handling of a failed refresh, and only when no successful refresh has
\* populated the cache or no entry exists; the handling of a failure with
\* no entry stores one; a stored degraded payload contains the
\* unavailability marker and 'Actualizado HH:MM.' of the time it was
\* stored.  (The marker is read here as the words both variants share,
\* 'no disponible por el momento.': part_000 says 'Clima para Capital
\* Federal no disponible por el momento.')
DegradedIffNoGoodEntry ==
    [][LET stored == /\ latestWeather' # latestWeather
                     /\ latestWeather'.xml # Null
                     /\ IsDegradedPayload(latestWeather'.xml[1])
       IN  /\ stored => FailureHandled /\ (~hist.everOk \/ latestWeather.xml = Null)
           /\ (FailureHandled /\ latestWeather.xml = Null) => stored
           /\ stored =>
                /\ \E j \in 1..Len(latestWeather'.xml[1].say) :
                      Contains(latestWeather'.xml[1].say[j],
                               Words(<<"no", "disponible", "por", "el", "momento.">>))
                /\ \E j \in 1..Len(latestWeather'.xml[1].say) :
                      Contains(latestWeather'.xml[1].say[j],
                               Actualizado(FormatHHmm(nowBA(now))))
      ]_vars

\* C6 (TTL rule of read): a GET /weather/voice request invokes
\* refreshWithLock, once, exactly when it finds no entry or an entry older
\* than 65 minutes; otherwise it is answered at once, from the cache,
\* without awaiting any call.
TTLRule ==
    \A p \in VoiceProcs :
        pc[p] \in {"await", "done"} =>
            LET n == Note(p)
                stale == \/ ~n.hadXml
                         \/ n.timestamp = Null
                         \/ n.at - n.timestamp[1] > 65
            IN  /\ n.invoked \in {0, 1}
                /\ n.invoked = 1 <=> stale
                /\ ~stale => /\ pc[p] = "done"
                             /\ awaiting[p] = 0
                             /\ ~n.started
                             /\ resp[p].body = latestWeather.xml

\* a read that found a 66 minutes old entry has started a refresh
TTLRuleWitness ==
    \E p \in VoiceProcs :
        /\ pc[p] = "await"
        /\ Note(p).hadXml
        /\ Note(p).at - Note(p).timestamp[1] = 66
        /\ Note(p).started

\* a read that found a 65 minutes old entry is answered from the cache
TTLRuleFreshWitness ==
    \E p \in VoiceProcs :
        /\ pc[p] = "done"
        /\ Note(p).hadXml
        /\ Note(p).at - Note(p).timestamp[1] = 65
        /\ Note(p).invoked = 0

\* C7 (forced refresh propagates failure): POST /weather/update answers
\* {ok: true} exactly when the refresh it started or joined succeeded; when
\* it failed the answer is status 502 with {ok: false, error: the failure's
\* message}, sent once the cache holds an entry.
ForcedRefreshPropagates ==
    \A p \in UpdateProcs :
        pc[p] = "done" =>
            LET a == Note(p).cohort
            IN  /\ calls[a].state \in {"ok", "fail"}
                /\ resp[p].body.ok <=> calls[a].state = "ok"
                /\ calls[a].state = "ok" => resp[p].status = 200
                /\ calls[a].state = "fail" =>
                      /\ resp[p].status = 502
                      /\ resp[p].body = [ok |-> FALSE, error |-> calls[a].err.message]
                      /\ Note(p).ensured

\* a forced refresh that joined a call in flight reports its timeout
ForcedRefreshPropagatesWitness ==
    \E p \in UpdateProcs :
        /\ pc[p] = "done"
        /\ Note(p).seen # {}
        /\ resp[p].status = 502
        /\ resp[p].body.error = "timeout of 10000ms exceeded"

\* C8 (forced refresh surfaces upstream status/body): every 502 response
\* of POST /weather/update carries upstream_status and upstream_body.
ForcedRefreshSurfacesUpstream ==
    \A p \in UpdateProcs :
        (pc[p] = "done" /\ resp[p].status = 502) =>
            {"upstream_status", "upstream_body"} \subseteq DOMAIN resp[p].body

\* C9 (atomic replacement): the entry's payload is null exactly when its
\* timestamp is; an entry written by a successful refresh has a payload
\* that is not a degraded one, the completion time of that refresh as its
\* timestamp and isDegraded = false.
AtomicReplacement ==
    /\ latestWeather.xml = Null <=> latestWeather.timestamp = Null
    /\ hist.writer = "refresh" =>
          /\ latestWeather.xml # Null
          /\ latestWeather.timestamp = <<hist.okAt>>
          /\ ~IsDegradedPayload(latestWeather.xml[1])
          /\ variant = "app" => latestWeather.isDegraded = FALSE

\* a successful refresh has replaced a degraded entry
AtomicReplacementWitness ==
    /\ hist.writer = "refresh"
    /\ hist.replaced = "degraded"

\* C10 (in-flight handle): refreshPromise is non-null exactly while an
\* upstream call is outstanding, and then it is that call; a handler whose
\* call to refreshWithLock found no refresh in flight started a new
\* upstream call.
HandleLifecycle ==
    /\ refreshPromise # Null <=> Pending # {}
    /\ refreshPromise # Null => refreshPromise[1] \in Pending
    /\ \A p \in Procs :
          Note(p).invoked = 1 /\ Note(p).seen = {} => Note(p).started

\* after a failed attempt was handled, a handler has started a second call
HandleLifecycleWitness ==
    \E p \in Procs :
        /\ pc[p] = "await"
        /\ Note(p).started
        /\ awaiting[p] >= 2
        /\ refreshPromise = <<awaiting[p]>>
        /\ hist.writer = "degraded"

----------------------------------------------------------------------------
(* Reading a payload back: the Say texts joined into one stream of tokens,
   in which a day is announced by a header ('Hoy jueves.', 'El viernes.' in
   app.js; 'Hoy.', 'Mañana.', 'Pasado mañana.' in part_000) and a segment
   by its moment label ending in ':'. *)

Stream(doc) == JoinSpace(doc.say)

PartIndex(key) == CHOOSE n \in 1..Len(dayParts) : dayParts[n].key = key

\* the day part (1..4) of the segment whose label ends at token i; 0 when
\* token i ends no label
PartAt(s, i) ==
    IF \E n \in 1..Len(dayParts) : s[i] = dayParts[n].key \o ":"
    THEN CHOOSE n \in 1..Len(dayParts) : s[i] = dayParts[n].key \o ":"
    ELSE IF s[i] = "actual:" /\ i > 2
            /\ \E n \in 1..Len(dayParts) : s[i - 2] = dayParts[n].key
    THEN PartIndex(s[i - 2])
    ELSE 0

\* the day offset (0..2) of the header that starts at token i; -1 when
\* none does
DayAt(s, i, baseDay) ==
    LET next == IF i + 2 <= Len(s) THEN s[i + 2] ELSE ""
    IN  CASE s[i] = "Hoy." -> 0
          [] s[i] = "Hoy" /\ next = weekdayEs(baseDay) \o "." -> 0
          [] s[i] = "Mañana." -> 1
          [] s[i] = "El" /\ next = weekdayEs(baseDay + 1) \o "." -> 1
          [] s[i] = "Pasado" /\ next = "mañana." -> 2
          [] s[i] = "El" /\ next = weekdayEs(baseDay + 2) \o "." -> 2
          [] OTHER -> -1

Headers(s, baseDay) == {i \in 1..Len(s) : DayAt(s, i, baseDay) >= 0}
Labels(s) == {i \in 1..Len(s) : PartAt(s, i) > 0}

\* the day offset of the segment labelled at token k: that of the last
\* header before it (-1 when there is none)
DayOf(s, k, baseDay) ==
    LET before == {m \in Headers(s, baseDay) : m < k}
    IN  IF before = {} THEN -1
        ELSE DayAt(s, CHOOSE m \in before : \A x \in before : x <= m, baseDay)

\* C11 (fixed frame): the payload of a successful refresh begins with
\* 'Capital Federal.' and ends with 'Actualizado HH:MM.' of the time of
\* the refresh (in app.js these are its first and its last Say); every
\* segment stands under a day header, the headers come in day order, each
\* header is followed by at least one segment before the next header, and
\* the segments of a day come in day-part order.
FixedFrame ==
    (result # Null /\ arg[1].f = "render") =>
        LET doc == result[1].xml[1]
            s == Stream(doc)
            baseDay == LocalDate(nowBA(now))
            H == Headers(s, baseDay)
            L == Labels(s)
            location == Words(<<"Capital", "Federal.">>)
            updated == Actualizado(FormatHHmm(nowBA(now)))
        IN  /\ Len(s) >= 6
            /\ SubSeq(s, 1, 3) = location
            /\ SubSeq(s, Len(s) - 2, Len(s)) = updated
            /\ variant = "app" => /\ doc.say[1] = location
                                  /\ doc.say[Len(doc.say)] = updated
            /\ \A k \in L : DayOf(s, k, baseDay) >= 0
            /\ \A m1, m2 \in H : m1 < m2 => DayAt(s, m1, baseDay) < DayAt(s, m2, baseDay)
            /\ \A m \in H : \E k \in L : k > m /\ \A x \in H : ~(m < x /\ x < k)
            /\ \A k1, k2 \in L :
                  (k1 < k2 /\ \A x \in H : ~(k1 < x /\ x < k2)) =>
                      PartAt(s, k1) < PartAt(s, k2)

\* C12 (day-part partition): buildSegmentsForDay collects a record whose
\* time parses and whose local date is the target date into exactly one
\* bucket, once, and that bucket is madrugada for hours 0..5, mañana for
\* 6..11, tarde for 12..17, noche for 18..23; any other record is
\* collected into no bucket.
DayPartPartition ==
    (result # Null /\ arg[1].f = "buckets") =>
        LET time == arg[1].time
            bucket == result[1]
            hits(i, n) == {k \in 1..Len(bucket[n]) : bucket[n][k] = i}
        IN  \A i \in 1..Len(time) :
                IF time[i].valid /\ time[i].date = arg[1].targetDate
                THEN /\ time[i].hour \in 0..23
                     /\ \A n \in 1..4 :
                            Cardinality(hits(i, n)) =
                                IF n = (time[i].hour \div 6) + 1 THEN 1 ELSE 0
                ELSE \A n \in 1..4 : hits(i, n) = {}

\* the records of 05:00 and 06:00 went to madrugada and mañana
DayPartPartitionWitness ==
    /\ result # Null
    /\ arg[1].f = "buckets"
    /\ Len(arg[1].time) = 2
    /\ arg[1].time[1] = Hour(arg[1].targetDate, 5)
    /\ arg[1].time[2] = Hour(arg[1].targetDate, 6)
    /\ result[1] = <<(<<1>>), (<<2>>), (<<>>), (<<>>)>>

\* C13 (most frequent code): the code of a bucket is null when the bucket
\* has no finite code; otherwise it is a value with the greatest number of
\* occurrences among the bucket's finite codes, and among the values with
\* that number of occurrences it is the one that occurs first when the
\* bucket's records are taken in ascending order of their time (records
\* of equal time in array order), whatever the order of the arrays.
MostFrequentCode ==
    (result # Null /\ arg[1].f = "codes") =>
        \A n \in 1..4 :
            LET time == arg[1].time
                inBucket == {i \in 1..Len(time) :
                                /\ time[i].valid
                                /\ time[i].date = arg[1].targetDate
                                /\ (time[i].hour \div 6) + 1 = n
                                /\ isFinite(Number(At(arg[1].code, i)))}
                val(i) == Number(At(arg[1].code, i)).v
                count(v) == Cardinality({i \in inBucket : val(i) = v})
                top == {i \in inBucket : \A j \in inBucket : count(val(j)) <= count(val(i))}
                earlier(i, j) == \/ time[i].hour < time[j].hour
                                 \/ time[i].hour = time[j].hour /\ i <= j
            IN  IF inBucket = {} THEN result[1][n] = JsNull
                ELSE \E i \in top : /\ \A j \in top : earlier(i, j)
                                     /\ result[1][n] = JsNum(val(i))

\* C14 (empty segments are omitted): a bucket has a description when it
\* holds at least one finite code and its most frequent code is a mapped
\* one, and a temperature range when it holds at least one finite
\* temperature.  buildSegmentsForDay emits a segment for a day part
\* exactly when its bucket has a description or a temperature range; the
\* segment of a bucket without description carries no description text.
EmptySegmentsOmitted ==
    (result # Null /\ arg[1].f = "segments") =>
        \A n \in 1..4 :
            LET time == arg[1].time
                inBucket == {i \in 1..Len(time) :
                                /\ time[i].valid
                                /\ time[i].date = arg[1].targetDate
                                /\ (time[i].hour \div 6) + 1 = n}
                codes == {i \in inBucket : isFinite(Number(At(arg[1].code, i)))}
                temps == {i \in inBucket : isFinite(Number(At(arg[1].temp, i)))}
                code == pickMostFrequent(BucketCodes(arg[1].targetDate, time,
                                                     arg[1].code, dayParts[n]))
                hasDesc == codes # {} /\ weatherCodeToSpanish(code) # <<>>
                hasRange == temps # {}
                emitted == {k \in 1..Len(result[1]) : result[1][k].key = dayParts[n].key}
            IN  /\ emitted # {} <=> (hasDesc \/ hasRange)
                /\ \A k \in emitted : ~hasDesc => result[1][k].desc = <<>>

\* C15 (current-day filtering): in the payload of a successful refresh, no
\* segment of day 0 belongs to a day part earlier than the one of the
\* current local hour; a segment is labelled 'actual' exactly when it is
\* the segment of day 0 for the current day part; and days 1 and 2 carry
\* all the segments buildSegmentsForDay returned for them.
CurrentDayFiltering ==
    (result # Null /\ arg[1].f = "render") =>
        LET s == Stream(result[1].xml[1])
            data == arg[1].data
            baseDay == LocalDate(nowBA(now))
            nowPart == (LocalHour(nowBA(now)) \div 6) + 1
            L == Labels(s)
        IN  /\ \A k \in L : DayOf(s, k, baseDay) = 0 => PartAt(s, k) >= nowPart
            /\ \A k \in L : s[k] = "actual:" <=>
                                (DayOf(s, k, baseDay) = 0 /\ PartAt(s, k) = nowPart)
            /\ \A d \in {1, 2} :
                  Cardinality({k \in L : DayOf(s, k, baseDay) = d}) =
                      Len(buildSegmentsForDay(baseDay + d, data.time, data.weather_code,
                                              data.temperature_2m,
                                              data.relative_humidity_2m))

\* a text of at most 240 characters without leading, trailing or doubled
\* whitespace
IsSanitized(text) ==
    /\ TextLen(text) <= 240
    /\ text # <<>> => text[1] \notin Whitespace /\ text[Len(text)] \notin Whitespace
    /\ \A i \in 1..(Len(text) - 1) :
          ~(text[i] \in Whitespace /\ text[i + 1] \in Whitespace)

\* C16 (sanitization): safeText returns a text of at most 240 characters
\* without leading, trailing or doubled whitespace, which is the collapsed
\* and trimmed input when that has at most 240 characters; applying
\* safeText to its result changes nothing; and every Say text of a
\* document built from a text, of a rendered payload and of a degraded
\* payload is such a text, unchanged by safeText.
Sanitization ==
    /\ (result # Null /\ arg[1].f = "text") =>
          LET out == result[1]
              collapsed == Trim(CollapseSpaces(arg[1].text))
          IN  /\ IsSanitized(out)
              /\ TextLen(collapsed) <= 240 => out = collapsed
              /\ safeText(out) = out
    /\ (result # Null /\ arg[1].f \in {"say", "render", "degraded"}) =>
          \A k \in 1..Len(result[1].xml[1].say) :
              /\ IsSanitized(result[1].xml[1].say[k])
              /\ safeText(result[1].xml[1].say[k]) = result[1].xml[1].say[k]

\* a text longer than 240 characters was cut right after a space, and the
\* result is shorter than 240 characters
SanitizationWitness ==
    /\ result # Null
    /\ arg[1].f = "text"
    /\ TextLen(Trim(CollapseSpaces(arg[1].text))) > 240
    /\ TextLen(result[1]) < 240
    /\ result[1] # <<>>

\* C17 (no waiter is stranded): when every upstream call settles, again and
\* again no handler is suspended at `await refreshWithLock()` and no
\* refreshPromise is stored, so none stays so for ever; a handler that has
\* resumed observed the outcome of the call it awaited, a failure when that
\* call timed out; and a GET /weather/voice that has resumed answers 200
\* with a payload.
NoWaiterStranded ==
    /\ []<>(\A p \in Procs : pc[p] # "await")
    /\ []<>(refreshPromise = Null)
    /\ [](\A p \in Procs :
            (pc[p] = "done" /\ Note(p).invoked = 1) =>
                /\ Note(p).observed \in {"ok", "fail"}
                /\ Note(p).observed = calls[awaiting[p]].state
                /\ calls[awaiting[p]].err.message = "timeout of 10000ms exceeded"
                      => Note(p).observed = "fail"
                /\ p \in VoiceProcs => resp[p].status = 200 /\ resp[p].body # Null)

\* a read that joined a call in flight has been answered after that call
\* timed out
NoWaiterStrandedWitness ==
    \E p \in VoiceProcs :
        /\ pc[p] = "done"
        /\ Note(p).seen # {}
        /\ Note(p).observed = "fail"
        /\ calls[awaiting[p]].err.message = "timeout of 10000ms exceeded"
        /\ resp[p].body # Null

----------------------------------------------------------------------------
\* the first refresh attempt has completed and every handler that awaited
\* it has run its try/catch
FirstAttemptHandled ==
    /\ Len(calls) >= 1
    /\ calls[1].state # "pending"
    /\ \A p \in Procs : ~(pc[p] = "await" /\ awaiting[p] = 1)

\* C18 (payload availability is monotonic): once the first refresh attempt
\* has completed and its callers have handled the outcome, latestWeather.xml
\* is not null; and no step makes a non-null latestWeather.xml null.
PayloadMonotonic ==
    /\ [](FirstAttemptHandled => latestWeather.xml # Null)
    /\ [][latestWeather.xml # Null => latestWeather'.xml # Null]_vars

\* the first attempt failed and was handled, no refresh has succeeded, and
\* a later attempt has failed and been handled too: a payload is cached
PayloadMonotonicWitness ==
    /\ FirstAttemptHandled
    /\ ~hist.everOk
    /\ hist.writer = "degraded"
    /\ \E p \in Procs : pc[p] = "done" /\ awaiting[p] >= 2 /\ Failed(p)
    /\ latestWeather.xml # Null

----------------------------------------------------------------------------
\* the step in which the GET /weather/voice request of p arrives
Arrives(p) == pc[p] = "idle" /\ pc'[p] # "idle"

\* the cached entry is a degraded one, at most `age` minutes old
DegradedWithin(age) ==
    /\ latestWeather.xml # Null
    /\ IsDegradedPayload(latestWeather.xml[1])
    /\ now - latestWeather.timestamp[1] <= age

\* app.js: the cached entry is a good one, older than the TTL
StaleGood ==
    /\ variant = "app"
    /\ latestWeather.xml # Null
    /\ ~latestWeather.isDegraded
    /\ now - latestWeather.timestamp[1] > CACHE_MAX_MINUTES

\* C19 (degraded entries are cached for the TTL): the catch block that
\* writes the degraded entry stamps it with the time of the failure; a GET
\* /weather/voice that finds a degraded entry at most 65 minutes old is
\* answered at once with it and neither starts nor joins a call; and in
\* app.js the failure of a refresh leaves a stale good entry as it is, so
\* that a GET /weather/voice that finds it awaits a call in flight.
DegradedCachedForTTL ==
    /\ [][(FailureHandled /\ CatchWrites) =>
              /\ IsDegradedPayload(latestWeather'.xml[1])
              /\ latestWeather'.timestamp = <<now>>]_vars
    /\ [][(FailureHandled /\ StaleGood) => latestWeather' = latestWeather]_vars
    /\ [][\A p \in VoiceProcs :
            Arrives(p) =>
                /\ DegradedWithin(CACHE_MAX_MINUTES) =>
                      /\ pc'[p] = "done"
                      /\ resp'[p].status = 200
                      /\ resp'[p].body = latestWeather.xml
                      /\ awaiting'[p] = 0
                      /\ calls' = calls /\ refreshPromise' = refreshPromise
                /\ StaleGood =>
                      /\ pc'[p] = "await"
                      /\ awaiting'[p] \in {a \in 1..Len(calls') :
                                              calls'[a].state = "pending"}
                      /\ refreshPromise' = <<awaiting'[p]>>]_vars

\* a read that arrived an hour after the failure (the hourly cron job has
\* not run yet), while a call started by another trigger was in flight, has
\* been answered with the degraded entry and awaits nothing
DegradedCachedForTTLWitness ==
    \E p \in VoiceProcs :
        /\ pc[p] = "done"
        /\ Note(p).invoked = 0
        /\ Note(p).seen # {}
        /\ awaiting[p] = 0
        /\ hist.writer = "degraded"
        /\ Note(p).at - Note(p).timestamp[1] = 60
        /\ IsDegradedPayload(resp[p].body[1])

====
